---- MODULE Spec2Model ----
(***************************************************************************)
(* Validation pipeline of sharp-skills/skills.                             *)
(*                                                                         *)
(* Two programs implement the same ladder and routing:                     *)
(*   "master" : MasterPipeline.run          (sharpskill.py)                *)
(*   "bot"    : SkillTester.test_skill      (test_bot.py)                  *)
(* A document is the list of its fenced code blocks plus the state of its  *)
(* front matter.  Everything the four levels observe about a block (the    *)
(* verdict of the syntax checker, the packages the extractor infers, the   *)
(* credential flag, the outcome of executing it) is a field of the block,  *)
(* so that validating the same text twice gives the same results.          *)
(***************************************************************************)
EXTENDS Integers, Sequences, FiniteSets, TLC

\* ------------------------------------------------------------------------
\* Bounds of the model
\* ------------------------------------------------------------------------
\* most code blocks in a generated / stored document
MaxBlocks == 3
\* most code blocks in a document returned by the repair call
MaxFixBlocks == 2

\* ------------------------------------------------------------------------
\* Rationals (test_bot.py keeps float scores passed/total)
\* ------------------------------------------------------------------------
Frac(n, d) == [num |-> n, den |-> d]
FAdd(a, b) == [num |-> a.num * b.den + b.num * a.den, den |-> a.den * b.den]
FGe(a, b)  == a.num * b.den >= b.num * a.den
FGt(a, b)  == a.num * b.den > b.num * a.den
FEq(a, b)  == a.num * b.den = b.num * a.den
Max(a, b)  == IF a >= b THEN a ELSE b

\* ------------------------------------------------------------------------
\* The world outside the programs
\* ------------------------------------------------------------------------
\* names that exist in the PyPI index; every other name is reported absent
PYPI == {"requests", "flask"}

\* A corpus of code blocks as the extractor sees them.
\*   lang       language after LANG_MAP
\*   syn        verdict of the language's syntax checker: "ok" | "error",
\*              or "timeout" when the checker subprocess does not finish
\*   packages   packages inferred by _packages / _extract_packages
\*   needs_api  credential flag (_needs_api)
\*   run        what executing the block (mocked when needs_api) gives:
\*              "ok" | "ModuleNotFoundError" | "SyntaxError" | "error",
\*              or "Timeout" when the subprocess does not finish in TIMEOUT
Blk(l, s, p, a, r) ==
    [lang |-> l, syn |-> s, packages |-> p, needs_api |-> a, run |-> r]

CodeSamples == <<
    Blk("python", "ok",    {},           FALSE, "ok"),
    Blk("python", "error", {},           FALSE, "SyntaxError"),
    Blk("python", "ok",    {"reqeusts"}, FALSE, "ModuleNotFoundError"),
    Blk("python", "ok",    {"requests", "flask"}, FALSE, "ok"),
    Blk("python", "ok",    {},           FALSE, "error"),
    Blk("python", "ok",    {},           TRUE,  "error")
>>

NSamples == Len(CodeSamples)

\* A second corpus: blocks that parse and infer no package, and whose
\* execution ends in one of the rarer ways (a SyntaxError reported only at
\* run time, a subprocess that runs into its timeout).
ExecSamples == <<
    Blk("python", "ok",      {}, FALSE, "ok"),
    Blk("python", "ok",      {}, FALSE, "SyntaxError"),
    Blk("python", "ok",      {}, TRUE,  "SyntaxError"),
    Blk("python", "ok",      {}, FALSE, "Timeout"),
    Blk("python", "ok",      {}, TRUE,  "Timeout"),
    Blk("bash",   "timeout", {}, FALSE, "ok")
>>

\* block lists of length <= n, written in corpus order
RECURSIVE SortedIdx(_)
SortedIdx(n) ==
    IF n = 0 THEN {<<>>}
    ELSE LET shorter == SortedIdx(n - 1)
         IN  shorter \cup
             {Append(s, k) : s \in {t \in shorter : Len(t) = n - 1},
                             k \in 1..NSamples}
BlockLists(n) ==
    {[i \in 1..Len(s) |-> CodeSamples[s[i]]] :
        s \in {t \in SortedIdx(n) :
                 \A i \in 1..(Len(t) - 1) : t[i] <= t[i + 1]}}
\* the same over the second corpus (it has as many samples as the first)
ExecBlockLists(n) ==
    {[i \in 1..Len(s) |-> ExecSamples[s[i]]] :
        s \in {t \in SortedIdx(n) :
                 \A i \in 1..(Len(t) - 1) : t[i] <= t[i + 1]}}

\* state of the "---" front matter of a document
Headers == {"valid", "malformed"}

Doc(h, bs) == [header |-> h, blocks |-> bs]
\* the bodies that texts with a defective opening are written with: no code
\* block, the one block that passes every level (it opens both corpora), or
\* the one block that does not parse
PlainBodies == {<< >>, << CodeSamples[1] >>, << CodeSamples[2] >>}
\* the texts over a set of block lists: each list under a valid front
\* matter, and the plain bodies under a front matter that does not parse
Written(lists) ==
    {Doc("valid", bs) : bs \in lists} \cup {Doc("malformed", bs) : bs \in PlainBodies}
Docs    == Written(BlockLists(MaxBlocks))
FixDocs == Written(BlockLists(MaxFixBlocks))
NoDoc   == [header |-> "none", blocks |-> <<>>]
ExecDocs    == Written(ExecBlockLists(MaxBlocks))
ExecFixDocs == Written(ExecBlockLists(MaxFixBlocks))

\* ------------------------------------------------------------------------
\* Helpers over block lists
\* ------------------------------------------------------------------------
Min(a, b) == IF a <= b THEN a ELSE b
\* blocks[:k]
Head_(bs, k) == SubSeq(bs, 1, Min(k, Len(bs)))
\* how many blocks of a list satisfy a condition given as a set of indices
Count(S) == Cardinality(S)
UnionPackages(bs, langs) ==
    UNION {bs[i].packages : i \in {j \in 1..Len(bs) : bs[j].lang \in langs}}
\* IsRunnable taking every block of an executable language
IsRunnable_IgnoresApi(b) == b.lang \in {"python", "javascript", "bash"}
IsRunnable(b) == ~b.needs_api /\ b.lang \in {"python", "javascript", "bash"}
IsApiBlock(b) == b.needs_api /\ b.lang \in {"python", "javascript"}

\* names that exist in the npm registry
NPM == {"express"}
_npm_exists(pkg)  == pkg \in NPM
_pypi_exists(pkg) == pkg \in PYPI

\* ------------------------------------------------------------------------
\* sharpskill.py : SkillTester (levels write a PipelineStage)
\* ------------------------------------------------------------------------
Stage(n, st, errs) == [name |-> n, status |-> st, errors |-> errs]

\* languages _syntax_check has a checker for; any other language returns True
M_CheckedLangs ==
    {"python", "javascript", "typescript", "bash", "yaml", "yml", "json"}
_syntax_check(b) == IF b.lang \in M_CheckedLangs THEN b.syn = "ok" ELSE TRUE
\* the checkers _syntax_check starts as a subprocess; their TimeoutExpired
\* is not caught
M_SubprocessLangs == {"javascript", "typescript", "bash"}

_test_syntax(doc) ==
    LET bs   == doc.blocks
        errs == {<<"block", i, "syntax">> : i \in {j \in 1..Len(bs) : ~_syntax_check(bs[j])}}
    IN  IF doc.header = "malformed"
          THEN Stage("TEST_L1_SYNTAX", "FAIL", {<<"YAML front matter invalid">>})
        ELSE IF bs = <<>>
          THEN Stage("TEST_L1_SYNTAX", "FAIL", {<<"No code blocks found">>})
        ELSE Stage("TEST_L1_SYNTAX", IF errs = {} THEN "PASS" ELSE "FAIL", errs)

_test_deps(doc) ==
    LET npm_pkgs  == UnionPackages(doc.blocks, {"javascript", "typescript"})
        pypi_pkgs == UnionPackages(doc.blocks, {"python"})
        errs      == {<<"npm", p, "not found">> : p \in {q \in npm_pkgs : ~_npm_exists(q)}}
                     \cup {<<"pip", p, "not found">> : p \in {q \in pypi_pkgs : ~_pypi_exists(q)}}
    IN  IF npm_pkgs = {} /\ pypi_pkgs = {}
          THEN Stage("TEST_L2_DEPS", "SKIP", {})
        ELSE Stage("TEST_L2_DEPS", IF errs = {} THEN "PASS" ELSE "FAIL", errs)

\* most blocks executed by L3 / L4 of sharpskill.py
M_SandboxCap == 4
M_MockCap == 3

_test_sandbox(doc) ==
    LET runnable == SelectSeq(doc.blocks, IsRunnable)
        ran      == Head_(runnable, M_SandboxCap)
        passed   == Count({i \in 1..Len(ran) : ran[i].run = "ok"})
        errs     == {<<"block", i, "runtime SyntaxError">> :
                        i \in {j \in 1..Len(ran) : ran[j].run = "SyntaxError"}}
    IN  IF runnable = <<>>
          THEN Stage("TEST_L3_SANDBOX", "SKIP", {})
        ELSE Stage("TEST_L3_SANDBOX",
                   IF 2 * passed >= Max(Len(runnable), 1) \/ errs = {}
                     THEN "PASS" ELSE "PARTIAL",
                   errs)

_test_mock(doc) ==
    LET api_blocks == SelectSeq(doc.blocks, IsApiBlock)
        ran        == Head_(api_blocks, M_MockCap)
        passed     == Count({i \in 1..Len(ran) : ran[i].run = "ok"})
        errs       == {<<"block", i, "syntax error">> :
                          i \in {j \in 1..Len(ran) : ran[j].run = "SyntaxError"}}
    IN  IF api_blocks = <<>>
          THEN Stage("TEST_L4_MOCK_API", "SKIP", {})
        ELSE Stage("TEST_L4_MOCK_API",
                   IF 2 * passed >= Max(Len(api_blocks), 1) \/ errs = {}
                     THEN "PASS" ELSE "PARTIAL",
                   errs)

\* M_run_all_stages running the dependency level before the syntax level
M_run_all_stages_DepsFirst(doc) ==
    << _test_deps(doc), _test_syntax(doc), _test_sandbox(doc), _test_mock(doc) >>

\* the four stages run_all appends, in order
M_run_all_stages(doc) ==
    << _test_syntax(doc), _test_deps(doc), _test_sandbox(doc), _test_mock(doc) >>

\* M_Credit giving a PARTIAL level nothing
M_Credit_PartialIsZero(s) ==
    IF s.name = "TEST_L1_SYNTAX" THEN (IF s.status = "PASS" THEN 2 ELSE 0)
    ELSE IF s.name = "TEST_L2_DEPS" THEN (IF s.status \in {"PASS", "SKIP"} THEN 2 ELSE 0)
    ELSE IF s.status \in {"PASS", "SKIP"} THEN 2 ELSE 0

\* what one stage adds to total_score, in halves
M_Credit(s) ==
    IF s.name = "TEST_L1_SYNTAX" THEN (IF s.status = "PASS" THEN 2 ELSE 0)
    ELSE IF s.name = "TEST_L2_DEPS" THEN (IF s.status \in {"PASS", "SKIP"} THEN 2 ELSE 0)
    ELSE IF s.status \in {"PASS", "SKIP"} THEN 2
    ELSE IF s.status = "PARTIAL" THEN 1 ELSE 0

\* the value run_all returns: total_score / test_count
M_run_all(doc) ==
    LET st == M_run_all_stages(doc)
    IN  Frac(M_Credit(st[1]) + M_Credit(st[2]) + M_Credit(st[3]) + M_Credit(st[4]), 2 * 4)

\* PipelineReport.overall_score: the TEST stages that are PASS, SKIP or FAIL
\* are averaged (in tenths); a stage of any other status adds no score
M_overall_score(sts) ==
    LET test_stages == SelectSeq(sts, LAMBDA s : s.name \in
                          {"TEST_L1_SYNTAX", "TEST_L2_DEPS",
                           "TEST_L3_SANDBOX", "TEST_L4_MOCK_API"})
        scored == SelectSeq(test_stages, LAMBDA s : s.status \in {"PASS", "SKIP", "FAIL"})
        tenths(s) == IF s.status = "PASS" THEN 10 ELSE IF s.status = "SKIP" THEN 9 ELSE 0
        sum[i \in 0..Len(scored)] ==
            IF i = 0 THEN 0 ELSE sum[i - 1] + tenths(scored[i])
    IN  IF test_stages = <<>> \/ scored = <<>> THEN Frac(0, 1)
        ELSE Frac(sum[Len(scored)], 10 * Len(scored))

\* round(x, 2) of to_dict, in hundredths.  The nearest hundredth; a value
\* midway goes where its float lies: the sums of 1.0 / 0.9 / 0.0 that give
\* 0.475, 0.925 and 0.975 are stored just below the midpoint, the one
\* that gives 0.675 just above.
Round2(f) ==
    IF f.num * 40 = 27 * f.den THEN 68
    ELSE (200 * f.num + f.den - 1) \div (2 * f.den)

M_hard_fail(stages) ==
    \E i \in 1..Len(stages) :
        stages[i].status = "FAIL" /\ stages[i].name \in {"TEST_L1_SYNTAX", "TEST_L2_DEPS"}

\* ------------------------------------------------------------------------
\* test_bot.py : the four testers (levels write a TestResult)
\* ------------------------------------------------------------------------
Result(l, sc, errs) == [level |-> l, score |-> sc, errors |-> errs]

\* TestResult.status
T_status(r) ==
    IF r.errors = {} THEN "PASS"
    ELSE IF FGt(r.score, Frac(1, 2)) THEN "PARTIAL"
    ELSE "FAIL"

\* languages SyntaxTester.test runs a checker on; blocks of any other
\* language are counted in total but never in passed
T_CheckedLangs == {"python", "javascript", "typescript", "bash", "yaml", "json"}

\* SyntaxTester_test without the early return for an empty block list
SyntaxTester_test_NoEmptyCheck(doc) ==
    LET bs     == doc.blocks
        total  == Len(bs)
        passed == Count({i \in 1..Len(bs) :
                            bs[i].lang \in T_CheckedLangs /\ bs[i].syn = "ok"})
        errs   == {<<"block", i, "syntax">> :
                      i \in {j \in 1..Len(bs) :
                                bs[j].lang \in T_CheckedLangs /\ bs[j].syn = "error"}}
    IN  Result("L1", Frac(passed, Max(total, 1)), errs)

SyntaxTester_test(doc) ==
    LET bs     == doc.blocks
        total  == Len(bs)
        passed == Count({i \in 1..Len(bs) :
                            bs[i].lang \in T_CheckedLangs /\ bs[i].syn = "ok"})
        errs   == {<<"block", i, "syntax">> :
                      i \in {j \in 1..Len(bs) :
                                bs[j].lang \in T_CheckedLangs /\ bs[j].syn = "error"}}
    IN  IF bs = <<>>
          THEN Result("L1", Frac(0, 1), {<<"No code blocks found in SKILL.md">>})
        ELSE Result("L1", Frac(passed, Max(total, 1)), errs)

DependencyTester_test(doc) ==
    LET all_npm  == UnionPackages(doc.blocks, {"javascript", "typescript"})
        all_pypi == UnionPackages(doc.blocks, {"python"})
        npm_fail  == {q \in all_npm : ~_npm_exists(q)}
        pypi_fail == {q \in all_pypi : ~_pypi_exists(q)}
        total  == Cardinality(all_npm) + Cardinality(all_pypi)
        passed == total - Cardinality(npm_fail) - Cardinality(pypi_fail)
        errs   == {<<"npm", p, "not found in registry">> : p \in npm_fail}
                  \cup {<<"pip", p, "not found in PyPI">> : p \in pypi_fail}
    IN  IF all_npm = {} /\ all_pypi = {}
          THEN Result("L2", Frac(1, 1), {})
        ELSE Result("L2", Frac(passed, Max(total, 1)), errs)

\* most blocks executed by L3 / L4 of test_bot.py
T_SandboxCap == 5
T_MockCap == 3

SandboxRunner_test(doc) ==
    LET runnable == SelectSeq(doc.blocks, IsRunnable)
        ran      == Head_(runnable, T_SandboxCap)
        passed   == Count({i \in 1..Len(ran) : ran[i].run = "ok"})
        errs     == {<<"block", i, "syntax error at runtime">> :
                        i \in {j \in 1..Len(ran) : ran[j].run = "SyntaxError"}}
    IN  IF runnable = <<>>
          THEN Result("L3", Frac(4, 5), {})
        ELSE Result("L3", Frac(passed, Max(Len(runnable), 1)), errs)

MockApiTester_test(doc) ==
    LET api_blocks == SelectSeq(doc.blocks, IsApiBlock)
        ran        == Head_(api_blocks, T_MockCap)
        passed     == Count({i \in 1..Len(ran) : ran[i].run = "ok"})
        errs       == {<<"block", i, "syntax error">> :
                          i \in {j \in 1..Len(ran) : ran[j].run = "SyntaxError"}}
    IN  IF api_blocks = <<>>
          THEN Result("L4", Frac(1, 1), {})
        ELSE Result("L4", Frac(passed, Max(Len(api_blocks), 1)), errs)

\* the results the level loop of test_skill appends, in order
T_levels(doc) ==
    << SyntaxTester_test(doc), DependencyTester_test(doc),
       SandboxRunner_test(doc), MockApiTester_test(doc) >>

\* SkillTestReport.overall_score: sum(r.score) / len(results)
RECURSIVE FSum(_)
FSum(rs) == IF rs = <<>> THEN Frac(0, 1) ELSE FAdd(Head(rs).score, FSum(Tail(rs)))
T_overall_score(results) ==
    IF results = <<>> THEN Frac(0, 1)
    ELSE LET t == FSum(results) IN Frac(t.num, t.den * Len(results))

\* T_has_hard_failures counting a FAIL of any level
T_has_hard_failures_AnyLevel(results) ==
    \E i \in 1..Len(results) : T_status(results[i]) = "FAIL"

T_has_hard_failures(results) ==
    \E i \in 1..Len(results) :
        T_status(results[i]) = "FAIL" /\ results[i].level \in {"L1", "L2"}

\* ------------------------------------------------------------------------
\* Subprocess timeouts that leave a level as an exception
\* ------------------------------------------------------------------------
\* The level (1..4) of run_all out of which subprocess.TimeoutExpired
\* propagates for this document, 0 when none does.  _run catches it (L3,
\* L4); _syntax_check does not, and is reached only past the header check.
M_RaisesAt(doc) ==
    IF /\ doc.header # "malformed"
       /\ \E i \in 1..Len(doc.blocks) :
              doc.blocks[i].lang \in M_SubprocessLangs /\ doc.blocks[i].syn = "timeout"
      THEN 1 ELSE 0

\* The same for the testers of test_bot.py: the bash check of L1,
\* SandboxRunner._run and MockApiTester._run_mocked catch no timeout (the
\* node check of L1 does).
T_RaisesAt(doc) ==
    LET bs  == doc.blocks
        ran == Head_(SelectSeq(bs, IsRunnable), T_SandboxCap)
        api == Head_(SelectSeq(bs, IsApiBlock), T_MockCap)
    IN  IF \E i \in 1..Len(bs) : bs[i].lang = "bash" /\ bs[i].syn = "timeout" THEN 1
        ELSE IF \E i \in 1..Len(ran) : ran[i].run = "Timeout" THEN 3
        ELSE IF \E i \in 1..Len(api) : api[i].run = "Timeout" THEN 4
        ELSE 0

\* ------------------------------------------------------------------------
\* Routing (the decision stage of both programs)
\* ------------------------------------------------------------------------
\* One branch of the decision: the final status it assigns and its side
\* effects.  skill / draft / publish name the text written to
\* skills/<tool>/SKILL.md, to drafts/<tool>/SKILL.md and handed to the
\* publisher: "none" | "orig" | "fixed".  route "FIX" enters the repair.
Outcome(f, sk, dr, pb, lb) ==
    [route |-> "END", final |-> f, skill |-> sk, draft |-> dr,
     publish |-> pb, label |-> lb]
ToRepair ==
    [route |-> "FIX", final |-> "PENDING", skill |-> "none", draft |-> "none",
     publish |-> "none", label |-> ""]

\* score >= 0.75 in sharpskill.py, score >= 0.7 in test_bot.py
M_threshold == Frac(3, 4)
T_threshold == Frac(7, 10)

\* M_Decide publishing a BETA text without the label
M_Decide_BetaUnlabelled(sc, hard_fail, key) ==
    IF FGe(sc, M_threshold) /\ ~hard_fail
      THEN Outcome("PASS", "none", "none", "orig", "")
    ELSE IF hard_fail /\ key
      THEN ToRepair
    ELSE Outcome("BETA", "none", "orig", "orig", "")

\* M_Decide without its else branch: the status is left as it was
M_Decide_NoElse(sc, hard_fail, key) ==
    IF FGe(sc, M_threshold) /\ ~hard_fail
      THEN Outcome("PASS", "none", "none", "orig", "")
    ELSE IF hard_fail /\ key
      THEN ToRepair
    ELSE Outcome("PENDING", "none", "orig", "orig", "BETA")

\* MasterPipeline.run, first decision
M_Decide(sc, hard_fail, key) ==
    IF FGe(sc, M_threshold) /\ ~hard_fail
      THEN Outcome("PASS", "none", "none", "orig", "")
    ELSE IF hard_fail /\ key
      THEN ToRepair
    ELSE Outcome("BETA", "none", "orig", "orig", "BETA")

\* M_DecideFixed labelling an empty repair BETA and publishing it
M_DecideFixed_NothingIsBeta(got_fix, fix_score, fix_hard) ==
    IF got_fix
      THEN IF FGe(fix_score, M_threshold) /\ ~fix_hard
             THEN Outcome("AUTO_FIXED", "fixed", "none", "fixed", "auto-fixed")
           ELSE Outcome("BETA", "fixed", "fixed", "fixed", "BETA")
    ELSE Outcome("BETA", "none", "orig", "orig", "BETA")

\* MasterPipeline.run, decision after fixer.fix returned
M_DecideFixed(got_fix, fix_score, fix_hard) ==
    IF got_fix
      THEN IF FGe(fix_score, M_threshold) /\ ~fix_hard
             THEN Outcome("AUTO_FIXED", "fixed", "none", "fixed", "auto-fixed")
           ELSE Outcome("BETA", "fixed", "fixed", "fixed", "BETA")
    ELSE Outcome("FAIL", "none", "orig", "none", "")

\* T_Decide passing on the score alone
T_Decide_ScoreOnly(sc, hard_fail, key) ==
    IF FGe(sc, T_threshold)
      THEN Outcome("PASS", "none", "none", "orig", "")
    ELSE IF hard_fail /\ key
      THEN ToRepair
    ELSE Outcome("BETA", "none", "orig", "orig", "BETA")

\* SkillTester.test_skill, first decision
T_Decide(sc, hard_fail, key) ==
    IF ~hard_fail /\ FGe(sc, T_threshold)
      THEN Outcome("PASS", "none", "none", "orig", "")
    ELSE IF hard_fail /\ key
      THEN ToRepair
    ELSE Outcome("BETA", "none", "orig", "orig", "BETA")

\* T_DecideFixed publishing the draft of a failed repair
T_DecideFixed_FailPublishes(got_fix, re_l1, re_l2) ==
    IF got_fix
      THEN IF T_status(re_l1) # "FAIL" /\ T_status(re_l2) # "FAIL"
             THEN Outcome("AUTO_FIXED", "fixed", "none", "fixed", "auto-fixed")
           ELSE Outcome("BETA", "none", "fixed", "fixed", "BETA")
    ELSE Outcome("FAIL", "none", "orig", "orig", "DRAFT")

\* SkillTester.test_skill, decision after fixer.fix returned;
\* re_l1, re_l2 are the two results recomputed on the repaired text
T_DecideFixed(got_fix, re_l1, re_l2) ==
    IF got_fix
      THEN IF T_status(re_l1) # "FAIL" /\ T_status(re_l2) # "FAIL"
             THEN Outcome("AUTO_FIXED", "fixed", "none", "fixed", "auto-fixed")
           ELSE Outcome("BETA", "none", "fixed", "fixed", "BETA")
    ELSE Outcome("FAIL", "none", "orig", "none", "")

\* AfterRepairDecision retrying the repair while the text is still BETA
AfterRepairDecision_Retry(o, will_publish) ==
    IF o.final = "BETA" THEN "fix"
    ELSE IF will_publish THEN "push" ELSE "save"

\* where the run continues once a decision after the repair is taken
AfterRepairDecision(o, will_publish) ==
    IF will_publish THEN "push" ELSE "save"

\* ------------------------------------------------------------------------
\* The world of topics
\* ------------------------------------------------------------------------
Tools == {"stripe", "owned-tool", "published-tool", "docker-helper",
          "cron-job"}
\* topics with a skills/<tool>/SKILL.md on disk before the run
LocalSkills == {"owned-tool", "cron-job"}
\* topics whose documents (generated, stored or repaired) are written with
\* blocks of the second corpus
ExecTools == {"docker-helper", "cron-job"}
DocsFor(t)    == IF t \in ExecTools THEN ExecDocs ELSE Docs
FixDocsFor(t) == IF t \in ExecTools THEN ExecFixDocs ELSE FixDocs
\* texts the repair call can answer with: documents, and the same texts
\* without the opening "---" line (header "unmarked")
RepliesFor(t) ==
    FixDocsFor(t) \cup {Doc("unmarked", bs) : bs \in PlainBodies}

\* AutoFixer.fix: what is returned for the text of a 200 answer; a text
\* that does not start with "---" gets the marker put in front of it, which
\* leaves it without a front matter for L1 to parse
fix_result(text) ==
    IF text.header = "unmarked" THEN Doc("prepended", text.blocks) ELSE text
\* topics _fetch_own lists for the own repository on GitHub
RemoteSkills == {"owned-tool", "published-tool"}
\* COMPETITORS[...]["known"], cut down to the topics of this world
CompetitorKnown ==
    [terminalskills |-> {"docker-helper"}, anthropic |-> {}]
\* topics for which the collector finds source material
HasSources == {"stripe"}
\* topics for which gap analysis could read a competitor's skill
GapSourcesRead == {"docker-helper"}

\* DedupChecker.check: the conflicts reported for a topic
Conflict(src, mt, tr) == [source |-> src, match_type |-> mt, tier |-> tr]
\* check looking only at the GitHub listing of the own repository
check_NoLocalLookup(tool, local) ==
    IF tool \in RemoteSkills
      THEN {Conflict("SharpSkill (GitHub)", "exact", "own")}
    ELSE {Conflict(c, "exact", IF c = "anthropic" THEN "official" ELSE "competitor") :
             c \in {d \in DOMAIN CompetitorKnown : tool \in CompetitorKnown[d]}}

\* local: the topics with a skills/<tool>/SKILL.md on disk at the call
check(tool, local) ==
    IF tool \in local
      THEN {Conflict("SharpSkill (local)", "exact", "own")}
    ELSE IF tool \in RemoteSkills
      THEN {Conflict("SharpSkill (GitHub)", "exact", "own")}
    ELSE {Conflict(c, "exact", IF c = "anthropic" THEN "official" ELSE "competitor") :
             c \in {d \in DOMAIN CompetitorKnown : tool \in CompetitorKnown[d]}}

\* Python's  word in source  for the source strings of this world
Contains(source, word) ==
    \/ word = "SharpSkill" /\ source \in {"SharpSkill (local)", "SharpSkill (GitHub)"}
    \/ word = source

\* MasterPipeline._dedup_check: the action and the DEDUP_CHECK stage status
_dedup_check(tool, local) ==
    LET conflicts == check(tool, local)
    IN  IF conflicts = {} THEN [action |-> "generate", status |-> "PASS"]
        ELSE IF \E c \in conflicts :
                    Contains(c.source, "SharpSkill") /\ c.match_type = "exact"
          THEN [action |-> "skip", status |-> "SKIP"]
        ELSE IF \E c \in conflicts : Contains(c.source, "TerminalSkills")
          THEN [action |-> "compete", status |-> "PASS"]
        ELSE [action |-> "variant", status |-> "PASS"]

\* AfterDedup without the return of the skip branch
AfterDedup_SkipFallsThrough(action) ==
    IF action \in {"compete", "variant"} THEN "gap" ELSE "collect"

\* MasterPipeline.run: where the run continues after stage 0
AfterDedup(action) ==
    IF action = "skip" THEN "done"
    ELSE IF action \in {"compete", "variant"} THEN "gap" ELSE "collect"

\* ------------------------------------------------------------------------
\* State
\* ------------------------------------------------------------------------
VARIABLES
    impl,               \* which program runs: "master" | "bot"
    ANTHROPIC_API_KEY,  \* the generation key is set
    GITHUB_TOKEN,       \* the publish token is set
    pc,                 \* position of the run
    tool,               \* topic / skill name of the run
    push,               \* the push argument of run / test_skill
    dedup_action,       \* report.dedup_action
    stages,             \* report.stages (master) / report.results (bot)
    skill_content,      \* the document under validation
    score,              \* the score the first decision uses
    reply,              \* history: text of the repair call's 200 answer
    fixed,              \* what fixer.fix returned (NoDoc for None)
    fix_stages,         \* level results recomputed on the repaired text
    final_status,       \* report.final_status
    fix_attempts,       \* report.fix_attempts (bot)
    skill_file,         \* skills/<tool>/SKILL.md
    draft,              \* drafts/<tool>/SKILL.md
    draft_report,       \* final_status inside drafts/<tool>/test_report.json (bot)
    pending,            \* arguments of the publish call about to be made
    pushes,             \* publish calls made, in order
    reports,            \* records written under test_reports/
    fix_calls,          \* history: calls of AutoFixer.fix
    assigns,            \* history: assignments to report.final_status
    first,              \* history: outcome of the earlier run of the topic
    pkgs,               \* _packages: the names found in a block's imports
    PYTHONHASHSEED,     \* string hash seed of the running interpreter
    extracted,          \* history: what each call of _packages returned
    tools,              \* batch_run: the names read from tools_priority.txt
    position,           \* batch_run: tools the loop has gone through
    results,            \* batch_run: the four buckets
    launched            \* history: topics a child run was started for

vars == << impl, ANTHROPIC_API_KEY, GITHUB_TOKEN, pc, tool, push, dedup_action,
           stages, skill_content, score, reply, fixed, fix_stages, final_status,
           fix_attempts, skill_file, draft, draft_report, pending, pushes,
           reports, fix_calls, assigns, first, pkgs, PYTHONHASHSEED,
           extracted, tools, position, results, launched >>

\* the state of one run
run_state == << impl, ANTHROPIC_API_KEY, GITHUB_TOKEN, pc, tool, push,
                dedup_action, stages, skill_content, score, reply, fixed,
                fix_stages, final_status, fix_attempts, skill_file, draft,
                draft_report, pending, pushes, reports, fix_calls, assigns >>

\* state that no step of a single run touches
batch == << tools, position, results, launched >>
outside == << first, pkgs, PYTHONHASHSEED, extracted, batch >>

NoPush == [content |-> NoDoc, label |-> "-"]
\* no earlier run of the topic
NoRun == [final_status |-> "-", score |-> Frac(0, 1), skill_file |-> NoDoc]
Terminal == {"PASS", "AUTO_FIXED", "BETA", "FAIL", "SKIPPED"}
\* results = {"pass": [], "skip": [], "fail": [], "error": []}
NoResults == [pass |-> << >>, skip |-> << >>, fail |-> << >>, error |-> << >>]
\* no batch is running
NoBatch ==
    /\ tools = << >>
    /\ position = 0
    /\ results = NoResults
    /\ launched = << >>

Init ==
    /\ impl \in {"master", "bot"}
    /\ ANTHROPIC_API_KEY \in BOOLEAN
    /\ GITHUB_TOKEN \in BOOLEAN
    /\ pc = "start"
    /\ tool = "-"
    /\ push = TRUE
    /\ dedup_action = "generate"
    /\ stages = <<>>
    /\ skill_content = NoDoc
    /\ score = Frac(0, 1)
    /\ reply = NoDoc
    /\ fixed = NoDoc
    /\ fix_stages = <<>>
    /\ final_status = "PENDING"
    /\ fix_attempts = 0
    /\ skill_file = NoDoc
    /\ draft = NoDoc
    /\ draft_report = "-"
    /\ pending = NoPush
    /\ pushes = <<>>
    /\ reports = <<>>
    /\ fix_calls = 0
    /\ assigns = 0
    /\ first = NoRun
    /\ pkgs = {}
    /\ PYTHONHASHSEED = 0
    /\ extracted = <<>>
    /\ NoBatch

\* the record to_dict() writes for a report with these fields
ReportOf(fs, sts) ==
    IF impl = "master"
      THEN [final_status |-> fs, stages |-> sts,
            overall_score |-> Round2(M_overall_score(sts))]
    ELSE [final_status |-> fs, stages |-> sts]
ReportDict == ReportOf(final_status, stages)

\* topics with a skills/<tool>/SKILL.md on disk now: those stored before
\* the first run, and the topic of the run once its file is written
Stored == LocalSkills \cup (IF skill_file # NoDoc THEN {tool} ELSE {})

\* ------------------------------------------------------------------------
\* Steps of a run
\* ------------------------------------------------------------------------
\* run(tool, push) / test_skill(skill_name, push) is entered
Begin ==
    /\ pc = "start"
    /\ \E t \in Tools, p \in BOOLEAN :
        /\ tool' = t
        /\ push' = p
        /\ pc' = IF impl = "master" THEN "dedup"
                 ELSE IF t \in LocalSkills THEN "load" ELSE "exit"
    /\ UNCHANGED << impl, outside, reply, ANTHROPIC_API_KEY, GITHUB_TOKEN, dedup_action, stages,
                    skill_content, score, fixed, fix_stages, final_status,
                    fix_attempts, skill_file, draft, draft_report, pending,
                    pushes, reports, fix_calls, assigns >>

\* bot: read skills/<skill>/SKILL.md
LoadSkill ==
    /\ pc = "load"
    /\ \E d \in (IF skill_file = NoDoc THEN DocsFor(tool) ELSE {skill_file}) :
        /\ skill_content' = d
        /\ skill_file' = d
    /\ pc' = "test"
    /\ UNCHANGED << impl, outside, reply, ANTHROPIC_API_KEY, GITHUB_TOKEN, tool, push, dedup_action,
                    stages, score, fixed, fix_stages, final_status, fix_attempts,
                    draft, draft_report, pending, pushes, reports, fix_calls,
                    assigns >>

\* master: stage 0; a skip ends the run here
DedupCheck ==
    /\ pc = "dedup"
    /\ LET r  == _dedup_check(tool, Stored)
           st == Append(stages, Stage("DEDUP_CHECK", r.status, {}))
       IN  /\ stages' = st
           /\ dedup_action' = r.action
           /\ pc' = AfterDedup(r.action)
           /\ IF r.action = "skip"
                THEN /\ final_status' = "SKIPPED"
                     /\ assigns' = assigns + 1
                     /\ reports' = Append(reports, ReportOf("SKIPPED", st))
              ELSE UNCHANGED << final_status, assigns, reports >>
    /\ UNCHANGED << impl, outside, reply, ANTHROPIC_API_KEY, GITHUB_TOKEN, tool, push, skill_content,
                    score, fixed, fix_stages, fix_attempts, skill_file, draft,
                    draft_report, pending, pushes, fix_calls >>

\* master: stage 0.5
GapAnalysis ==
    /\ pc = "gap"
    /\ stages' = Append(stages,
                   Stage("GAP_ANALYSIS",
                         IF tool \in GapSourcesRead THEN "PASS" ELSE "SKIP", {}))
    /\ pc' = "collect"
    /\ UNCHANGED << impl, outside, reply, ANTHROPIC_API_KEY, GITHUB_TOKEN, tool, push, dedup_action,
                    skill_content, score, fixed, fix_stages, final_status,
                    fix_attempts, skill_file, draft, draft_report, pending,
                    pushes, reports, fix_calls, assigns >>

\* master: stage 1
Collect ==
    /\ pc = "collect"
    /\ stages' = Append(stages,
                   Stage("COLLECT",
                         IF tool \in HasSources THEN "PASS" ELSE "PARTIAL", {}))
    /\ pc' = "generate"
    /\ UNCHANGED << impl, outside, reply, ANTHROPIC_API_KEY, GITHUB_TOKEN, tool, push, dedup_action,
                    skill_content, score, fixed, fix_stages, final_status,
                    fix_attempts, skill_file, draft, draft_report, pending,
                    pushes, reports, fix_calls, assigns >>

\* master: stage 2 and the local save of the generated text
Generate ==
    /\ pc = "generate"
    /\ \E d \in DocsFor(tool) :
        /\ skill_content' = d
        /\ skill_file' = d
    /\ stages' = Append(stages, Stage("GENERATE", "PASS", {}))
    /\ pc' = "test"
    /\ UNCHANGED << impl, outside, reply, ANTHROPIC_API_KEY, GITHUB_TOKEN, tool, push, dedup_action,
                    score, fixed, fix_stages, final_status, fix_attempts, draft,
                    draft_report, pending, pushes, reports, fix_calls, assigns >>

\* run_all / the level loop of test_skill
TestAll ==
    /\ pc = "test"
    /\ LET at == IF impl = "master" THEN M_RaisesAt(skill_content)
                 ELSE T_RaisesAt(skill_content)
           lv == IF impl = "master" THEN M_run_all_stages(skill_content)
                 ELSE T_levels(skill_content)
       IN  IF at # 0
             THEN /\ stages' = stages \o SubSeq(lv, 1, at - 1)
                  /\ score' = score
                  /\ pc' = "TimeoutExpired"
           ELSE /\ stages' = stages \o lv
                /\ score' = IF impl = "master" THEN M_run_all(skill_content)
                            ELSE T_overall_score(stages \o lv)
                /\ pc' = "decide"
    /\ UNCHANGED << impl, outside, reply, ANTHROPIC_API_KEY, GITHUB_TOKEN, tool, push, dedup_action,
                    skill_content, fixed, fix_stages, final_status, fix_attempts,
                    skill_file, draft, draft_report, pending, pushes, reports,
                    fix_calls, assigns >>

\* the text a branch names
Text(which) == IF which = "fixed" THEN fixed ELSE skill_content

\* a branch hands its text to the publisher only when publishing is on;
\* the bot has no publisher object without a token
WillPublish(o) ==
    /\ o.publish # "none"
    /\ push
    /\ (impl = "master" \/ GITHUB_TOKEN)

\* the branch o is executed: status, local writes, pending publish call
Execute(o, next) ==
    /\ final_status' = o.final
    /\ assigns' = assigns + 1
    /\ skill_file' = IF o.skill = "none" THEN skill_file ELSE Text(o.skill)
    /\ draft' = IF o.draft = "none" THEN draft ELSE Text(o.draft)
    /\ draft_report' = IF o.draft # "none" /\ impl = "bot"
                         THEN final_status ELSE draft_report
    /\ pending' = IF WillPublish(o)
                    THEN [content |-> Text(o.publish), label |-> o.label]
                  ELSE NoPush
    /\ pc' = next

\* stage 4: the first decision
Decide ==
    /\ pc = "decide"
    /\ LET o == IF impl = "master"
                  THEN M_Decide(score, M_hard_fail(stages), ANTHROPIC_API_KEY)
                ELSE T_Decide(score, T_has_hard_failures(stages), ANTHROPIC_API_KEY)
       IN  IF o.route = "FIX"
             THEN /\ pc' = "fix"
                  /\ UNCHANGED << final_status, assigns, skill_file, draft,
                                  draft_report, pending >>
           ELSE Execute(o, IF WillPublish(o) THEN "push" ELSE "save")
    /\ UNCHANGED << impl, outside, reply, ANTHROPIC_API_KEY, GITHUB_TOKEN, tool, push, dedup_action,
                    stages, skill_content, score, fixed, fix_stages, fix_attempts,
                    pushes, reports, fix_calls >>

\* some stage / result of the report carries a failure note
HasErrors(sts) == \E i \in 1..Len(sts) : sts[i].errors # {}

\* AutoFixer.fix is called; master records the AUTO_FIX stage
AutoFix ==
    /\ pc = "fix"
    /\ fix_calls' = fix_calls + 1
    /\ \E resp \in {"200", "non200", "exception"} :
        /\ IF ANTHROPIC_API_KEY /\ HasErrors(stages) /\ resp = "200"
             THEN \E text \in RepliesFor(tool) :
                     /\ reply' = text
                     /\ fixed' = fix_result(text)
           ELSE /\ reply' = NoDoc
                /\ fixed' = NoDoc
        /\ stages' = IF impl = "master"
                       THEN Append(stages,
                              Stage("AUTO_FIX", "PENDING",
                                    IF ANTHROPIC_API_KEY /\ HasErrors(stages)
                                       /\ resp = "exception"
                                      THEN {<<"AutoFix API error">>} ELSE {}))
                     ELSE stages
    /\ pc' = "fixed"
    /\ UNCHANGED << impl, outside, ANTHROPIC_API_KEY, GITHUB_TOKEN, tool, push, dedup_action,
                    skill_content, score, fix_stages, final_status, fix_attempts,
                    skill_file, draft, draft_report, pending, pushes, reports,
                    assigns >>

\* the repair returned a text: validate it again and decide
Retest ==
    /\ pc = "fixed"
    /\ fixed # NoDoc
    /\ LET at == IF impl = "master" THEN M_RaisesAt(fixed)
                 ELSE IF T_RaisesAt(fixed) = 1 THEN 1 ELSE 0
           re == IF impl = "master" THEN M_run_all_stages(fixed)
                 ELSE << SyntaxTester_test(fixed), DependencyTester_test(fixed) >>
           o  == IF impl = "master"
                   THEN M_DecideFixed(TRUE, M_run_all(fixed), M_hard_fail(re))
                 ELSE T_DecideFixed(TRUE, re[1], re[2])
       IN  IF at # 0
             THEN /\ fix_stages' = <<>>
                  /\ pc' = "TimeoutExpired"
                  /\ UNCHANGED << final_status, assigns, skill_file, draft,
                                  draft_report, pending >>
           ELSE /\ fix_stages' = re
                /\ Execute(o, AfterRepairDecision(o, WillPublish(o)))
    /\ fix_attempts' = IF impl = "bot" THEN 1 ELSE fix_attempts
    /\ UNCHANGED << impl, outside, reply, ANTHROPIC_API_KEY, GITHUB_TOKEN, tool, push, dedup_action,
                    stages, skill_content, score, fixed, pushes, reports,
                    fix_calls >>

\* the repair returned nothing
RepairNothing ==
    /\ pc = "fixed"
    /\ fixed = NoDoc
    /\ LET o == IF impl = "master"
                  THEN M_DecideFixed(FALSE, Frac(0, 1), FALSE)
                ELSE T_DecideFixed(FALSE, Result("L1", Frac(0, 1), {}),
                                   Result("L2", Frac(0, 1), {}))
       IN  Execute(o, IF WillPublish(o) THEN "push" ELSE "save")
    /\ UNCHANGED << impl, outside, reply, ANTHROPIC_API_KEY, GITHUB_TOKEN, tool, push, dedup_action,
                    stages, skill_content, score, fixed, fix_stages, fix_attempts,
                    pushes, reports, fix_calls >>

\* GitHubPublisher.push / push_skill; a request that raises ends the run
Push ==
    /\ pc = "push"
    /\ IF ~GITHUB_TOKEN
         THEN /\ pc' = "save"
              /\ UNCHANGED pushes
       ELSE \E result \in {"ok", "rejected", "raises"} :
              /\ pushes' = Append(pushes, [content |-> pending.content,
                                           label |-> pending.label,
                                           result |-> result])
              /\ pc' = IF result = "raises" THEN "crashed" ELSE "save"
    /\ pending' = NoPush
    /\ UNCHANGED << impl, outside, reply, ANTHROPIC_API_KEY, GITHUB_TOKEN, tool, push, dedup_action,
                    stages, skill_content, score, fixed, fix_stages, final_status,
                    fix_attempts, skill_file, draft, draft_report, reports,
                    fix_calls, assigns >>

\* the report is written and the run returns
SaveReport ==
    /\ pc = "save"
    /\ reports' = Append(reports, ReportDict)
    /\ pc' = "done"
    /\ UNCHANGED << impl, outside, reply, ANTHROPIC_API_KEY, GITHUB_TOKEN, tool, push, dedup_action,
                    stages, skill_content, score, fixed, fix_stages, final_status,
                    fix_attempts, skill_file, draft, draft_report, pending, pushes,
                    fix_calls, assigns >>

Next ==
    \/ Begin
    \/ LoadSkill
    \/ DedupCheck
    \/ GapAnalysis
    \/ Collect
    \/ Generate
    \/ TestAll
    \/ Decide
    \/ AutoFix
    \/ Retest
    \/ RepairNothing
    \/ Push
    \/ SaveReport

Spec == Init /\ [][Next]_vars

\* every step of a run is a call that returns or times out: a run that can
\* take a step eventually takes one
FairSpec == Spec /\ WF_vars(Next)

\* ------------------------------------------------------------------------
\* A second invocation for the same topic
\* ------------------------------------------------------------------------
\* run / test_skill is called again for the topic of a run that ended PASS,
\* with the same arguments: a new report object, the files of the first run
\* still on disk
Rerun ==
    /\ pc = "done"
    /\ first = NoRun
    /\ final_status = "PASS"
    /\ first' = [final_status |-> final_status, score |-> score,
                 skill_file |-> skill_file]
    /\ pc' = IF impl = "master" THEN "dedup" ELSE "load"
    /\ dedup_action' = "generate"
    /\ stages' = <<>>
    /\ skill_content' = NoDoc
    /\ score' = Frac(0, 1)
    /\ reply' = NoDoc
    /\ fixed' = NoDoc
    /\ fix_stages' = <<>>
    /\ final_status' = "PENDING"
    /\ fix_attempts' = 0
    /\ pending' = NoPush
    /\ fix_calls' = 0
    /\ assigns' = 0
    /\ UNCHANGED << impl, ANTHROPIC_API_KEY, GITHUB_TOKEN, tool, push, skill_file,
                    draft, draft_report, pushes, reports, pkgs, PYTHONHASHSEED,
                    extracted, batch >>

NextRerun ==
    \/ Next
    \/ Rerun

SpecRerun == Init /\ [][NextRerun]_vars

\* ------------------------------------------------------------------------
\* CodeExtractor._packages / _extract_packages
\* ------------------------------------------------------------------------
\* distinct package names in the world, hash seeds an interpreter may start
\* with, calls of the extractor followed
MaxPkgs == 11
MaxSeed == 2
MaxCalls == 2

\* the [:10] of  list(set(pkgs))[:10]
PackageCap == 10

\* place of a name in the iteration order of a set of strings: it follows
\* the string hashes, which the interpreter salts with its seed
HashRank(p, seed) == (p + seed) % MaxPkgs

\* list(set(pkgs))[:10], as the set of the names kept
_packages(names, seed) ==
    {p \in names :
        Cardinality({q \in names : HashRank(q, seed) < HashRank(p, seed)}) < PackageCap}

\* a block whose import lines name the packages pkgs is about to be extracted
ExtractInit ==
    /\ impl = "master"
    /\ ANTHROPIC_API_KEY = FALSE
    /\ GITHUB_TOKEN = FALSE
    /\ pc = "extract"
    /\ tool = "-"
    /\ push = TRUE
    /\ dedup_action = "generate"
    /\ stages = <<>>
    /\ skill_content = NoDoc
    /\ score = Frac(0, 1)
    /\ reply = NoDoc
    /\ fixed = NoDoc
    /\ fix_stages = <<>>
    /\ final_status = "PENDING"
    /\ fix_attempts = 0
    /\ skill_file = NoDoc
    /\ draft = NoDoc
    /\ draft_report = "-"
    /\ pending = NoPush
    /\ pushes = <<>>
    /\ reports = <<>>
    /\ fix_calls = 0
    /\ assigns = 0
    /\ first = NoRun
    /\ pkgs \in {S \in SUBSET (1..MaxPkgs) : Cardinality(S) >= PackageCap - 1}
    /\ PYTHONHASHSEED \in 0..MaxSeed
    /\ extracted = <<>>
    /\ NoBatch

\* extract is called on the block
Extract ==
    /\ pc = "extract"
    /\ Len(extracted) < MaxCalls
    /\ extracted' = Append(extracted,
                      [seed |-> PYTHONHASHSEED,
                       packages |-> _packages(pkgs, PYTHONHASHSEED)])
    /\ UNCHANGED << run_state, first, pkgs, PYTHONHASHSEED, batch >>

\* the next call is made by another interpreter process
NewProcess ==
    /\ pc = "extract"
    /\ \E seed \in (0..MaxSeed) \ {PYTHONHASHSEED} : PYTHONHASHSEED' = seed
    /\ UNCHANGED << run_state, first, pkgs, extracted, batch >>

NextExtract ==
    \/ Extract
    \/ NewProcess

SpecExtract == ExtractInit /\ [][NextExtract]_vars

\* ------------------------------------------------------------------------
\* The level loop on documents with blocks no checker exists for
\* ------------------------------------------------------------------------
\* blocks as extract returns them for a fence without a tag or with a tag
\* LANG_MAP does not know ("unknown"), for sql, and for python
UntaggedSamples == <<
    Blk("python",  "ok",    {}, FALSE, "ok"),
    Blk("python",  "error", {}, FALSE, "SyntaxError"),
    Blk("sql",     "ok",    {}, FALSE, "ok"),
    Blk("unknown", "ok",    {}, FALSE, "ok") >>

RECURSIVE Seqs(_, _)
\* every sequence of at most n elements of S
Seqs(S, n) ==
    IF n = 0 THEN {<< >>}
    ELSE Seqs(S, n - 1) \cup {Append(q, x) : q \in Seqs(S, n - 1), x \in S}

UntaggedDocs ==
    {Doc(h, [i \in 1..Len(q) |-> UntaggedSamples[q[i]]]) :
        h \in Headers, q \in Seqs(1..Len(UntaggedSamples), MaxBlocks)}

\* languages neither program has a checker for
Untestable(b) == b.lang \in {"unknown", "sql"}
\* the document without those blocks
Testable(doc) ==
    Doc(doc.header, SelectSeq(doc.blocks, LAMBDA b : ~Untestable(b)))

\* a document with such blocks is handed to the level loop
LevelsInit ==
    /\ impl \in {"master", "bot"}
    /\ ANTHROPIC_API_KEY = FALSE
    /\ GITHUB_TOKEN = FALSE
    /\ pc = "test"
    /\ tool = "-"
    /\ push = FALSE
    /\ dedup_action = "generate"
    /\ stages = <<>>
    /\ skill_content \in UntaggedDocs
    /\ score = Frac(0, 1)
    /\ reply = NoDoc
    /\ fixed = NoDoc
    /\ fix_stages = <<>>
    /\ final_status = "PENDING"
    /\ fix_attempts = 0
    /\ skill_file = skill_content
    /\ draft = NoDoc
    /\ draft_report = "-"
    /\ pending = NoPush
    /\ pushes = <<>>
    /\ reports = <<>>
    /\ fix_calls = 0
    /\ assigns = 0
    /\ first = NoRun
    /\ pkgs = {}
    /\ PYTHONHASHSEED = 0
    /\ extracted = <<>>
    /\ NoBatch

NextLevels ==
    \/ TestAll
    \/ Decide

SpecLevels == LevelsInit /\ [][NextLevels]_vars

\* ------------------------------------------------------------------------
\* batch_run.py: one child run of sharpskill.py per topic
\* ------------------------------------------------------------------------
\* topics a tools file may list, and the longest list followed
BatchTools == {"stripe", "docker-helper", "owned-tool"}
MaxTools == 2

\* tools_priority.txt: lists of distinct topics
ToolLists ==
    {q \in Seqs(BatchTools, MaxTools) :
        /\ q # << >>
        /\ \A a, b \in 1..Len(q) : a # b => q[a] # q[b]}

\* a child run as its output shows it: how the process ended, the verdict
\* it had reached, and the statuses _print_stage printed
Child(e, fs, sts) == [end |-> e, final_status |-> fs, printed |-> sts]
ChildRuns ==
    { Child("returned", "SKIPPED",    {"SKIP"}),
      Child("returned", "PASS",       {"PASS"}),
      Child("returned", "BETA",       {"PASS", "FAIL"}),
      Child("returned", "BETA",       {"PASS", "FAIL", "PENDING"}),
      Child("returned", "FAIL",       {"PASS", "FAIL", "PENDING"}),
      Child("returned", "AUTO_FIXED", {"PASS", "FAIL", "PENDING"}),
      Child("crashed",  "PASS",       {"PASS"}) }

\* r.stdout + r.stderr, as the words the loop searches it for: the stage
\* lines of _print_stage, the SKIPPED line of the skip branch, the line of
\* the PASS decision, and the verdict and "Score:" lines of _summary, which
\* a skipped run and a run ended by an exception do not reach
Output(child) ==
    [SKIPPED |-> child.final_status = "SKIPPED",
     PASS    |-> "PASS" \in child.printed \/ child.final_status = "PASS",
     Score   |-> child.end = "returned" /\ child.final_status # "SKIPPED",
     FAIL    |-> \/ "FAIL" \in child.printed
                 \/ child.end = "returned" /\ child.final_status = "FAIL"]

\* the if / elif chain on the output
Bucket(out) ==
    IF out.SKIPPED THEN "skip"
    ELSE IF out.PASS /\ out.Score THEN "pass"
    ELSE IF out.FAIL THEN "fail"
    ELSE "error"

BatchInit ==
    /\ impl = "master"
    /\ ANTHROPIC_API_KEY = FALSE
    /\ GITHUB_TOKEN = FALSE
    /\ pc = "batch"
    /\ tool = "-"
    /\ push \in BOOLEAN
    /\ dedup_action = "generate"
    /\ stages = <<>>
    /\ skill_content = NoDoc
    /\ score = Frac(0, 1)
    /\ reply = NoDoc
    /\ fixed = NoDoc
    /\ fix_stages = <<>>
    /\ final_status = "PENDING"
    /\ fix_attempts = 0
    /\ skill_file = NoDoc
    /\ draft = NoDoc
    /\ draft_report = "-"
    /\ pending = NoPush
    /\ pushes = <<>>
    /\ reports = <<>>
    /\ fix_calls = 0
    /\ assigns = 0
    /\ first = NoRun
    /\ pkgs = {}
    /\ PYTHONHASHSEED = 0
    /\ extracted = <<>>
    /\ tools \in ToolLists
    /\ position = 0
    /\ results = NoResults
    /\ launched = << >>

\* results[name].append(t)
Put(res, name, t) == [res EXCEPT ![name] = Append(@, t)]

\* one turn of the loop: the child ends within 180 s or not, and the append
\* to batch_run.log succeeds or raises
RunTool ==
    /\ pc = "batch"
    /\ position < Len(tools)
    /\ LET t == tools[position + 1]
       IN  \E ran \in {"completed", "TimeoutExpired", "OSError"},
              child \in ChildRuns, log_ok \in BOOLEAN :
             /\ ran # "completed" => (child = Child("returned", "PASS", {"PASS"}) /\ log_ok)
             /\ launched' = Append(launched,
                               [tool |-> t, ran |-> ran, final_status |->
                                  IF ran = "completed" THEN child.final_status ELSE "-"])
             /\ results' =
                  IF ran # "completed" THEN Put(results, "error", t)
                  ELSE LET placed == Put(results, Bucket(Output(child)), t)
                       IN  IF log_ok THEN placed ELSE Put(placed, "error", t)
    /\ position' = position + 1
    /\ UNCHANGED << run_state, first, pkgs, PYTHONHASHSEED, extracted, tools >>

\* the four lines after the loop
PrintTotals ==
    /\ pc = "batch"
    /\ position = Len(tools)
    /\ pc' = "done"
    /\ UNCHANGED << impl, ANTHROPIC_API_KEY, GITHUB_TOKEN, tool, push,
                    dedup_action, stages, skill_content, score, reply, fixed,
                    fix_stages, final_status, fix_attempts, skill_file, draft,
                    draft_report, pending, pushes, reports, fix_calls, assigns,
                    outside >>

NextBatch ==
    \/ RunTool
    \/ PrintTotals

SpecBatch == BatchInit /\ [][NextBatch]_vars

\* ------------------------------------------------------------------------
\* Views of the state used by the properties
\* ------------------------------------------------------------------------
\* the four level results of the first validation pass (<<>> before it ran)
Levels ==
    IF impl = "master"
      THEN SelectSeq(stages, LAMBDA s : s.name \in
               {"TEST_L1_SYNTAX", "TEST_L2_DEPS", "TEST_L3_SANDBOX", "TEST_L4_MOCK_API"})
    ELSE stages
\* status of level n of the first pass
LevelStatus(n) ==
    IF impl = "master" THEN Levels[n].status ELSE T_status(Levels[n])
\* the hard_failure flag as the router of the running program computes it
HardFailure ==
    IF impl = "master" THEN M_hard_fail(stages) ELSE T_has_hard_failures(stages)
\* the pass threshold of the running program
Threshold == IF impl = "master" THEN M_threshold ELSE T_threshold
\* rule 2 evaluated on a text by the full ladder of the running program
ClearsRule2(doc) ==
    IF impl = "master"
      THEN FGe(M_run_all(doc), M_threshold) /\ ~M_hard_fail(M_run_all_stages(doc))
    ELSE FGe(T_overall_score(T_levels(doc)), T_threshold)
         /\ ~T_has_hard_failures(T_levels(doc))
\* a block the syntax checker of the running program rejects
FailsSyntax(b) ==
    IF impl = "master" THEN ~_syntax_check(b)
    ELSE b.lang \in T_CheckedLangs /\ b.syn = "error"
\* package names L2 looks up and the index reports absent
AbsentPackages(doc) ==
    {q \in UnionPackages(doc.blocks, {"python"}) : ~_pypi_exists(q)}
    \cup {q \in UnionPackages(doc.blocks, {"javascript", "typescript"}) : ~_npm_exists(q)}

\* ------------------------------------------------------------------------
\* Properties
\* ------------------------------------------------------------------------

\* C1: in both programs, a run whose validation ends with hard_failure true
\* and without a generation key ends in FAIL.
C1_HardFailureWithoutKeyIsFail ==
    (pc = "done" /\ Len(Levels) = 4 /\ HardFailure /\ ~ANTHROPIC_API_KEY)
        => final_status = "FAIL"

\* C2: in both programs, for a document with blocks and a valid header, L1
\* is FAIL exactly when some block fails its syntax check and PASS
\* otherwise; with a failing block hard_failure is set and the run never
\* ends in PASS.
C2_AnySyntaxFailureFailsL1 ==
    (Len(Levels) = 4 /\ skill_content.blocks # <<>> /\ skill_content.header = "valid")
        => LET bs       == skill_content.blocks
               some_bad == \E i \in 1..Len(bs) : FailsSyntax(bs[i])
           IN  /\ LevelStatus(1) = (IF some_bad THEN "FAIL" ELSE "PASS")
               /\ some_bad => (HardFailure /\ final_status # "PASS")

\* C3: in both programs, every package the index reports absent makes L2
\* FAIL, however many other packages exist, and is named in the L2 failure
\* notes.
C3_AbsentPackageFailsL2 ==
    Len(Levels) = 4
        => \A p \in AbsentPackages(skill_content) :
              /\ LevelStatus(2) = "FAIL"
              /\ \E note \in Levels[2].errors : note[2] = p

\* C4: AutoFixer.fix is called at most once in a run; whenever the run is
\* about to call it no call has been made yet, so a hard failure of the
\* repaired text never requests a second repair.
C4_AtMostOneRepair ==
    /\ fix_calls <= 1
    /\ pc = "fix" => fix_calls = 0
C4_Witness ==
    /\ pc = "done"
    /\ fix_calls = 1
    /\ fixed # NoDoc
    /\ final_status = "BETA"
    /\ IF impl = "master" THEN M_hard_fail(fix_stages)
       ELSE T_has_hard_failures(fix_stages)

\* C5: MasterPipeline.run assigns final_status exactly once on every path
\* that returns, and the value is one of PASS, AUTO_FIXED, BETA, FAIL,
\* SKIPPED; a returned report is never PENDING.
C5_RouterTotal ==
    impl = "master"
        => /\ assigns <= 1
           /\ assigns = 0 => final_status = "PENDING"
           /\ assigns = 1 => final_status \in Terminal
           /\ pc = "done" => assigns = 1
C5_Witness ==
    /\ impl = "master"
    /\ pc = "done"
    /\ final_status = "BETA"
    /\ ~ANTHROPIC_API_KEY
    /\ dedup_action = "variant"

\* C6: a run that was not skipped ends in PASS exactly when the first
\* validation pass scored at least the threshold without hard failure, and
\* then no repair was attempted.
C6_PassIffCleanFirstPass ==
    (assigns > 0 /\ final_status # "SKIPPED")
        => /\ final_status = "PASS" <=> (FGe(score, Threshold) /\ ~HardFailure)
           /\ final_status = "PASS" => (fix_calls = 0 /\ fixed = NoDoc)
C6_Witness ==
    /\ pc = "done"
    /\ final_status = "PASS"
    /\ impl = "master"
    /\ ANTHROPIC_API_KEY
    /\ Len(pushes) = 1

\* C7: in both programs, when the repair returns a text the run ends in
\* AUTO_FIXED exactly when the repaired text, validated again, clears rule 2
\* (score at least the threshold and no hard failure), and in BETA
\* otherwise.
C7_AutoFixedIffRepairClearsRule2 ==
    (assigns > 0 /\ fixed # NoDoc)
        => final_status = (IF ClearsRule2(fixed) THEN "AUTO_FIXED" ELSE "BETA")

\* C8: when the repair is attempted and returns nothing usable the run
\* ends in FAIL and the original document is the local draft.
C8_NoRepairIsFailWithDraft ==
    (assigns > 0 /\ fix_calls > 0 /\ fixed = NoDoc)
        => /\ final_status = "FAIL"
           /\ draft = skill_content
C8_Witness ==
    /\ pc = "done"
    /\ fix_calls = 1
    /\ fixed = NoDoc
    /\ HardFailure
    /\ ANTHROPIC_API_KEY
    /\ final_status = "FAIL"
    /\ draft = skill_content

\* C9: a run that ends in FAIL never calls the publish target and leaves a
\* local draft of the document.
C9_FailNeverPublishes ==
    final_status = "FAIL"
        => /\ pushes = <<>>
           /\ pending = NoPush
           /\ pc # "push"
           /\ draft # NoDoc
C9_Witness ==
    /\ pc = "done"
    /\ final_status = "FAIL"
    /\ push
    /\ GITHUB_TOKEN
    /\ pushes = <<>>
    /\ draft # NoDoc

\* C10: a run that ends in BETA has saved a local draft and every publish
\* call it makes carries the BETA label (one is made when publishing is
\* enabled); a publish call without label is made only by a run in PASS.
C10_BetaIsLabelledAndDrafted ==
    /\ final_status = "BETA"
         => /\ draft = (IF fixed # NoDoc THEN fixed ELSE skill_content)
            /\ \A i \in 1..Len(pushes) : pushes[i].label = "BETA"
            /\ pending # NoPush => pending.label = "BETA"
            /\ (push /\ GITHUB_TOKEN) =>
                  (pending # NoPush \/ Len(pushes) = 1)
    /\ \A i \in 1..Len(pushes) : pushes[i].label = "" => final_status = "PASS"
    /\ (pending # NoPush /\ pending.label = "") => final_status = "PASS"
C10_Witness ==
    /\ pc = "done"
    /\ final_status = "BETA"
    /\ Len(pushes) = 1
    /\ pushes[1].label = "BETA"
    /\ draft # NoDoc

\* C11: when the dedup check of MasterPipeline.run resolves to skip (the
\* topic is in the own repository, locally or on GitHub) the run ends at
\* once in SKIPPED with the report written; the report holds the dedup stage
\* only and nothing was generated, validated, repaired, drafted or published.
C11_SkipEndsRunAfterDedup ==
    /\ (impl = "master" /\ dedup_action = "skip")
          => /\ pc = "done"
             /\ final_status = "SKIPPED"
             /\ assigns = 1
             /\ stages = << Stage("DEDUP_CHECK", "SKIP", {}) >>
             /\ reports = << [final_status |-> "SKIPPED", stages |-> stages,
                               overall_score |-> 0] >>
             /\ skill_content = NoDoc
             /\ skill_file = NoDoc
             /\ fixed = NoDoc
             /\ fix_calls = 0
             /\ draft = NoDoc
             /\ pending = NoPush
             /\ pushes = <<>>
    /\ (impl = "master" /\ tool \in (LocalSkills \cup RemoteSkills)
            /\ pc \notin {"start", "dedup"})
          => dedup_action = "skip"
C11_Witness ==
    /\ impl = "master"
    /\ tool = "published-tool"
    /\ dedup_action = "skip"
    /\ pc = "done"
    /\ final_status = "SKIPPED"
    /\ Len(reports) = 1

\* C12: the hard_failure flag the router computes is true exactly when the
\* L1 or the L2 result has status FAIL; whatever L3 and L4 report (every
\* block failing hard included), a run whose L1 and L2 are not FAIL has the
\* flag false and never enters the repair.
C12_HardFailureIffL1OrL2Fail ==
    Len(Levels) = 4
        => /\ HardFailure <=> (LevelStatus(1) = "FAIL" \/ LevelStatus(2) = "FAIL")
           /\ (LevelStatus(1) # "FAIL" /\ LevelStatus(2) # "FAIL")
                 => (pc # "fix" /\ fix_calls = 0)
C12_Witness ==
    /\ impl = "bot"
    /\ pc = "done"
    /\ Len(Levels) = 4
    /\ LevelStatus(3) = "FAIL"
    /\ LevelStatus(4) = "FAIL"
    /\ Levels[3].score = Frac(0, 1)
    /\ ~HardFailure
    /\ ANTHROPIC_API_KEY
    /\ fix_calls = 0

\* the mean over the four levels of the first pass, each level counted by
\* its status alone: PASS 1, FAIL 0, SKIP skip20 / 20, PARTIAL 1/2
MeanOfFour(skip20) ==
    LET twentieths(n) ==
            IF LevelStatus(n) = "PASS" THEN 20
            ELSE IF LevelStatus(n) = "SKIP" THEN skip20
            ELSE IF LevelStatus(n) = "PARTIAL" THEN 10
            ELSE 0
    IN  Frac(twentieths(1) + twentieths(2) + twentieths(3) + twentieths(4), 4 * 20)

\* C13: in MasterPipeline, both the score run_all returns for routing and
\* the overall_score written to the report are the mean over exactly the four
\* level results, PASS counting 1.0, FAIL 0.0, SKIP one fixed value (1.0 in
\* run_all, 0.9 in the report) and PARTIAL one fixed value (0.5); every
\* level is in the denominator whatever its status.
C13_ScoreIsMeanOfFourLevels ==
    (impl = "master" /\ Len(Levels) = 4)
        => /\ FEq(score, MeanOfFour(20))
           /\ \A i \in 1..Len(reports) :
                 reports[i].overall_score = Round2(MeanOfFour(18))

\* level n (2, 3 or 4) of the first pass was skipped for lack of input;
\* test_bot.py has no SKIP status, its testers return early instead
SkippedForLackOfInput(n) ==
    IF impl = "master" THEN LevelStatus(n) = "SKIP"
    ELSE IF n = 2
      THEN UnionPackages(skill_content.blocks,
                         {"python", "javascript", "typescript"}) = {}
    ELSE IF n = 3
      THEN SelectSeq(skill_content.blocks, IsRunnable) = <<>>
    ELSE SelectSeq(skill_content.blocks, IsApiBlock) = <<>>
\* what level n adds to the sum the routing score is the mean of
Contribution(n) ==
    IF impl = "master" THEN Frac(M_Credit(Levels[n]), 2) ELSE Levels[n].score

\* C14: a level skipped for lack of applicable input (L2 without inferred
\* packages, L3 without runnable blocks) adds to the routing score a value
\* strictly above 0.5 and strictly below the 1.0 of a verified PASS.
C14_SkipIsBetweenHalfAndFull ==
    Len(Levels) = 4
        => \A n \in {2, 3} :
              SkippedForLackOfInput(n)
                  => /\ FGt(Contribution(n), Frac(1, 2))
                     /\ FGt(Frac(1, 1), Contribution(n))

\* C15: in both programs a document whose front matter is present but
\* malformed gets L1 FAIL at once: the only failure note is the one about the
\* header, no block was checked, and hard_failure is true whatever the blocks.
C15_MalformedHeaderFailsL1 ==
    (Len(Levels) = 4 /\ skill_content.header = "malformed")
        => /\ LevelStatus(1) = "FAIL"
           /\ \A note \in Levels[1].errors : note[1] # "block"
           /\ HardFailure

\* C16: for every document from which the extractor yields no code block,
\* L1 is FAIL and hard_failure is true.
C16_NoBlocksFailsL1 ==
    (Len(Levels) = 4 /\ skill_content.blocks = <<>>)
        => /\ LevelStatus(1) = "FAIL"
           /\ HardFailure
C16_Witness ==
    /\ impl = "bot"
    /\ pc = "done"
    /\ Len(Levels) = 4
    /\ skill_content.blocks = <<>>
    /\ skill_content.header = "valid"
    /\ LevelStatus(1) = "FAIL"
    /\ HardFailure

\* C17: a document with a valid header and exactly one python block that
\* parses, infers no package and needs no credential is validated to the
\* end with L1 PASS, L2 skipped, L3 PASS or PARTIAL and L4 skipped; its score
\* reaches the pass threshold and the run ends in PASS without a repair,
\* with or without a generation key.
C17_OneValidBlockPasses ==
    LET bs == skill_content.blocks
    IN  (/\ skill_content.header = "valid"
         /\ Len(bs) = 1
         /\ bs[1].lang = "python"
         /\ bs[1].syn = "ok"
         /\ bs[1].packages = {}
         /\ ~bs[1].needs_api)
            => /\ pc # "TimeoutExpired"
               /\ fix_calls = 0
               /\ Len(Levels) = 4
                     => /\ LevelStatus(1) = "PASS"
                        /\ SkippedForLackOfInput(2)
                        /\ LevelStatus(3) \in {"PASS", "PARTIAL"}
                        /\ SkippedForLackOfInput(4)
                        /\ FGe(score, Threshold)
               /\ assigns > 0 => final_status = "PASS"

\* C18: a repair answer that does not begin with "---" is rejected: the
\* repair returns nothing usable, the text is never validated again, written
\* to the skill file or the drafts, or handed to the publisher, and the run
\* ends in FAIL.
C18_UnmarkedRepairIsRejected ==
    reply.header = "unmarked"
        => /\ fixed = NoDoc
           /\ fix_stages = <<>>
           /\ skill_file.header # "prepended"
           /\ draft.header # "prepended"
           /\ pending.content.header # "prepended"
           /\ \A i \in 1..Len(pushes) : pushes[i].content.header # "prepended"
           /\ assigns > 0 => final_status = "FAIL"

\* the full ladder of the running program applied to a text
Ladder(doc) == IF impl = "master" THEN M_run_all_stages(doc) ELSE T_levels(doc)

\* C19: in both programs, once a repaired text was received and decided
\* on, the results of the second validation are those of all four levels
\* L1..L4 run on the repaired text, and the repair is accepted (AUTO_FIXED)
\* exactly when these four results show no hard failure and a score of at
\* least the threshold.
C19_RepairRevalidatedOnFullLadder ==
    (fixed # NoDoc /\ assigns > 0)
        => /\ Len(fix_stages) = 4
           /\ fix_stages = Ladder(fixed)
           /\ final_status = "AUTO_FIXED" <=> ClearsRule2(fixed)

\* some block of the text makes a subprocess of a validation level run into
\* its timeout
HasTimeout(doc) ==
    \E i \in 1..Len(doc.blocks) :
        doc.blocks[i].syn = "timeout" \/ doc.blocks[i].run = "Timeout"
\* the blocks level n (3 or 4) of the running program executes
Executed(doc, n) ==
    IF n = 3
      THEN Head_(SelectSeq(doc.blocks, IsRunnable),
                 IF impl = "master" THEN M_SandboxCap ELSE T_SandboxCap)
    ELSE Head_(SelectSeq(doc.blocks, IsApiBlock),
               IF impl = "master" THEN M_MockCap ELSE T_MockCap)

\* C20: a timeout of a subprocess started by a validation level (the L1
\* checkers, L3, L4) never leaves the level as an exception: the run is never
\* aborted by it, the block concerned gets no hard failure note in the
\* level's result, and a run over such a document that returns has assigned
\* a terminal status and written its report.
C20_TimeoutNeverEscapesLevel ==
    /\ pc # "TimeoutExpired"
    /\ Len(Levels) = 4
          => \A n \in {3, 4} : \A note \in Levels[n].errors :
                Executed(skill_content, n)[note[2]].run # "Timeout"
    /\ (pc = "done" /\ HasTimeout(skill_content))
          => (final_status \in Terminal /\ Len(reports) = 1)

\* C21: a publish call that fails, by answering with a failure or by raising
\* because the target cannot be reached, leaves the final status at the
\* verdict computed before it, and the run still writes its report.
C21_FailedPublishKeepsVerdictAndReport ==
    (pushes # <<>> /\ pushes[Len(pushes)].result # "ok")
        => /\ pc \in {"save", "done"}
           /\ final_status \in {"PASS", "AUTO_FIXED", "BETA"}
           /\ pc = "done" => reports = << ReportDict >>

\* C22: a run writes its report exactly once, as its last step and with a
\* terminal final status; no record written by either program, the
\* test_report.json beside a draft included, carries the status PENDING.
C22_ReportOnceAndNeverPending ==
    /\ Len(reports) <= 1
    /\ pc = "done" <=> Len(reports) = 1
    /\ \A i \in 1..Len(reports) : reports[i].final_status \in Terminal
    /\ draft_report # "PENDING"

\* C23: when a run of the master pipeline ends in FAIL, the text is kept in
\* drafts/ only: nothing is stored under skills/<tool>/SKILL.md and nothing
\* is handed to the publish target.
C23_FailLeavesOnlyADraft ==
    (impl = "master" /\ final_status = "FAIL")
        => /\ draft = skill_content
           /\ skill_file = NoDoc
           /\ pending = NoPush
           /\ pushes = <<>>

\* the stage of a persisted master record with this name, as a set
StagesNamed(rec, name) ==
    { rec.stages[i] : i \in { j \in 1..Len(rec.stages) : rec.stages[j].name = name } }

\* C29: in every report the master pipeline persists with final status PASS
\* or AUTO_FIXED, neither the TEST_L1_SYNTAX nor the TEST_L2_DEPS stage of
\* that report is FAIL, and the persisted overall_score (in hundredths) is at
\* or above the pass threshold of 0.75.
C29_AcceptedReportShowsNoHardFailure ==
    impl = "master" =>
        \A i \in 1..Len(reports) :
            reports[i].final_status \in {"PASS", "AUTO_FIXED"}
                => /\ \A s \in StagesNamed(reports[i], "TEST_L1_SYNTAX")
                              \cup StagesNamed(reports[i], "TEST_L2_DEPS") :
                          s.status # "FAIL"
                   /\ reports[i].overall_score >= 75

\* C30: in the master pipeline a first pass without a hard failure always
\* has a routing score of at least 0.75, so the run is routed to PASS; BETA
\* is assigned only when the first pass has a hard failure, never because of
\* a low score alone.
C30_NoHardFailureMeansPass ==
    (impl = "master" /\ Len(Levels) = 4)
        => /\ ~HardFailure
                => /\ FGe(score, M_threshold)
                   /\ final_status \in {"PENDING", "PASS"}
           /\ final_status = "BETA" => HardFailure

\* a run of the master pipeline whose first pass has no hard failure and the
\* lowest score such a pass can get, both L3 and L4 PARTIAL, has ended PASS
C30_Witness ==
    /\ impl = "master"
    /\ pc = "done"
    /\ Len(Levels) = 4
    /\ ~HardFailure
    /\ LevelStatus(3) = "PARTIAL"
    /\ LevelStatus(4) = "PARTIAL"
    /\ FEq(score, M_threshold)
    /\ final_status = "PASS"

\* the run has taken its decision and has stopped, by returning or by an
\* exception of the publish call
DecidedAndOver ==
    /\ final_status \in {"PASS", "AUTO_FIXED", "BETA", "FAIL"}
    /\ pc \in {"done", "crashed"}

\* C28: with push = False the publish target is never called, whatever the
\* branch and the terminal state; the terminal state, the local saves and
\* the persisted report do not depend on the push argument: a decided run
\* that is over has written the report of its verdict with publishing
\* enabled exactly as it has with publishing disabled.
C28_NoPushOnlyOmitsThePublishCall ==
    /\ ~push => (pushes = <<>> /\ pending = NoPush /\ pc \notin {"push", "crashed"})
    /\ DecidedAndOver => reports = << ReportDict >>

\* exit status of the process started by `sharpskill.py run` or
\* `test_bot.py test`: __main__ drops the report that run / test_skill
\* returns and ends normally; test_skill calls sys.exit(1) for a missing
\* skill file; an uncaught exception ends the interpreter with status 1.
\* -1 while the run is under way.
ExitStatus ==
    IF pc = "done" THEN 0
    ELSE IF pc \in {"exit", "crashed", "TimeoutExpired"} THEN 1
    ELSE -1

\* `sharpskill.py validate` over the stored documents: counts the documents
\* whose front matter does not load, prints the two counts and returns
cmd_validate(stored) ==
    LET failing == {d \in stored : d.header = "malformed"}
    IN  [ok |-> Count(stored \ failing), fail |-> Count(failing), exit |-> 0]

\* C27: the process of a run invocation (sharpskill.py run, test_bot.py
\* test) exits non-zero when the terminal state is FAIL, and validate exits
\* non-zero when some stored skill fails structural validation.
C27_FailureGivesNonZeroExit ==
    /\ (final_status = "FAIL" /\ ExitStatus # -1) => ExitStatus # 0
    /\ skill_file # NoDoc =>
          LET v == cmd_validate({skill_file})
          IN  v.fail > 0 => v.exit # 0

\* C26: when every external call returns or times out, every run of the
\* master pipeline comes to an end in a terminal state: the levels are
\* bounded loops and the repair is called at most once, never in a loop.
C26_MasterRunTerminates ==
    /\ [](impl = "master" => fix_calls <= 1)
    /\ (impl = "master") ~> (pc = "done" /\ final_status \in Terminal)

\* C24 (as stated): a second run for a topic whose first run ended PASS,
\* nothing outside having changed, ends in the same terminal state PASS with
\* the same overall score.
C24_SecondRunRepeatsPass ==
    (first # NoRun /\ pc = "done")
        => /\ final_status = "PASS"
           /\ FEq(score, first.score)

\* C24 (amended): a second run of the master pipeline for a topic whose
\* first run ended PASS stops at the dedup gate: the file the first run left
\* under skills/ makes the topic an own skill, nothing is generated or
\* validated again, the file is left as it was, and the second report says
\* SKIPPED with an overall score of 0.
C24_SecondMasterRunIsSkipped ==
    (impl = "master" /\ first # NoRun)
        => /\ pc \in {"dedup", "done"}
           /\ skill_file = first.skill_file
           /\ pc = "done"
                => /\ final_status = "SKIPPED"
                   /\ fix_calls = 0
                   /\ Len(reports) = 2
                   /\ reports[1].final_status = "PASS"
                   /\ reports[2].final_status = "SKIPPED"
                   /\ reports[2].overall_score = 0
                   /\ reports[1].overall_score >= 90

\* the second run of the master pipeline for a topic has returned
C24_Witness ==
    /\ impl = "master"
    /\ first # NoRun
    /\ first.final_status = "PASS"
    /\ pc = "done"
    /\ final_status = "SKIPPED"

\* C25: extraction is deterministic: the same text gives the same package
\* set for a block, the same names surviving the cap of 10, whether the
\* calls are made in one process or in different processes.
C25_ExtractIsDeterministic ==
    \A i, j \in 1..Len(extracted) : extracted[i].packages = extracted[j].packages

\* names of the stages appended to the report so far, in order
StageNames == [i \in 1..Len(stages) |-> stages[i].name]

\* the stages of a complete run of the master pipeline in pipeline order;
\* gap analysis is part of it when the dedup action is compete or variant
PipelineOrder(with_gap, with_fix) ==
    << "DEDUP_CHECK" >>
    \o (IF with_gap THEN << "GAP_ANALYSIS" >> ELSE << >>)
    \o << "COLLECT", "GENERATE", "TEST_L1_SYNTAX", "TEST_L2_DEPS",
          "TEST_L3_SANDBOX", "TEST_L4_MOCK_API" >>
    \o (IF with_fix THEN << "AUTO_FIX" >> ELSE << >>)

IsPrefix(a, b) == Len(a) <= Len(b) /\ a = SubSeq(b, 1, Len(a))

\* the first decision of the run has been reached
DecisionTaken ==
    pc \in {"decide", "fix", "fixed", "push", "save", "crashed"}
        \/ (pc = "done" /\ final_status # "SKIPPED")

\* C31: in every run of the master pipeline that is not skipped, the stages
\* are appended in the order DEDUP_CHECK, GAP_ANALYSIS (optional), COLLECT,
\* GENERATE, the four levels L1..L4, AUTO_FIX (optional); each level appears
\* exactly once, all four also when L1 fails, and the decision is taken only
\* after the four level results are recorded.
C31_StagesInPipelineOrder ==
    (impl = "master" /\ final_status # "SKIPPED" /\ pc # "start")
        => /\ IsPrefix(StageNames,
                       PipelineOrder(dedup_action \in {"compete", "variant"}, TRUE))
           /\ DecisionTaken
                => LET levels == Levels
                   IN  /\ Len(levels) = 4
                       /\ \A n \in 1..4 :
                            levels[n].name = PipelineOrder(FALSE, FALSE)[3 + n]
                       /\ Len(stages) >= Len(PipelineOrder(
                              dedup_action \in {"compete", "variant"}, FALSE))

\* a run with gap analysis whose L1 failed has recorded all nine stages
C31_Witness ==
    /\ impl = "master"
    /\ pc = "done"
    /\ Len(stages) = 9
    /\ stages[2].name = "GAP_ANALYSIS"
    /\ LevelStatus(1) = "FAIL"
    /\ stages[9].name = "AUTO_FIX"

\* C32: when L3 has candidates, its status is PASS if at least half of the
\* candidates actually executed (those within the cap) ran cleanly or if no
\* syntax error at run time was recorded; otherwise it is PARTIAL, and FAIL
\* only if every executed block failed that way.  Both programs, any number
\* of candidates.
C32_SandboxStatusRule ==
    (Len(Levels) = 4 /\ SelectSeq(skill_content.blocks, IsRunnable) # << >>)
        => LET ran   == Executed(skill_content, 3)
               clean == Count({i \in 1..Len(ran) : ran[i].run = "ok"})
               hard  == Count({i \in 1..Len(ran) : ran[i].run = "SyntaxError"})
           IN  IF 2 * clean >= Len(ran) \/ hard = 0
                 THEN LevelStatus(3) = "PASS"
               ELSE \/ LevelStatus(3) = "PARTIAL"
                    \/ LevelStatus(3) = "FAIL" /\ hard = Len(ran)

\* C33: a block of an unknown or otherwise untestable language (no tag,
\* unrecognised tag, sql) passes L1 vacuously in both programs: it counts as
\* a passed block in the passed/total score of L1 and lowers neither the
\* L1 result nor the overall score.
C33_UntestableBlocksPassL1 ==
    (pc # "test" /\ Len(Levels) = 4 /\ skill_content.blocks # << >>)
        => LET bs    == skill_content.blocks
               rest  == Testable(skill_content)
               good  == Count({i \in 1..Len(bs) : Untestable(bs[i]) \/ bs[i].syn = "ok"})
           IN  /\ impl = "bot" => FEq(Levels[1].score, Frac(good, Len(bs)))
               /\ (skill_content.header = "valid" /\ good = Len(bs))
                     => LevelStatus(1) = "PASS"
               /\ rest.blocks # << >>
                     => FGe(score, IF impl = "master" THEN M_run_all(rest)
                                   ELSE T_overall_score(T_levels(rest)))

\* the languages for which L4 puts the mock modules in front of the code
\* and replaces the references to credentials before it runs the block
MockApplied(b) == b.lang \in {"python", "javascript"}

\* the blocks level n (3 or 4) executes, as a set
ExecutedSet(doc, n) ==
    LET run == Executed(doc, n) IN {run[i] : i \in 1..Len(run)}

LookedUp(doc) ==
    UnionPackages(doc.blocks, {"javascript", "typescript"})
        \cup UnionPackages(doc.blocks, {"python"})

\* requests sent to the package indexes for a name so far in the run.
\* sharpskill.py: _npm_exists / _pypi_exists send one request per call, L2
\* calls them once per distinct name of a text, and the re-validation of a
\* repaired text runs L2 again.  test_bot.py: _check_npm / _check_pypi
\* answer a name found in NPM_CACHE / PYPI_CACHE without a request.
IndexRequests(name) ==
    LET first_pass == IF Len(Levels) >= 2 THEN LookedUp(skill_content) ELSE {}
        retest     == IF fix_stages # << >> THEN LookedUp(fixed) ELSE {}
    IN  IF impl = "master"
          THEN (IF name \in first_pass THEN 1 ELSE 0)
               + (IF name \in retest THEN 1 ELSE 0)
        ELSE IF name \in first_pass \cup retest THEN 1 ELSE 0

\* C35: within one run, the re-validation of a repaired document included,
\* a package name is requested from its index at most once; a repeated
\* lookup is answered from the cache.
C35_PackageLookedUpOncePerRun ==
    \A name \in LookedUp(skill_content) \cup LookedUp(fixed) :
        IndexRequests(name) <= 1

\* the conflicts of a topic that DedupChecker.check reports for the
\* TerminalSkills competitor: add_conflict is called with its key in
\* COMPETITORS as the source
FromTerminalSkills(conflicts) ==
    {c \in conflicts : c.source = "terminalskills" /\ c.tier = "competitor"}
OwnExact(conflicts) ==
    {c \in conflicts : c.tier = "own" /\ c.match_type = "exact"}

\* C36: once stage 0 of a master run has answered, a topic for which the
\* checker reports a conflict from the TerminalSkills competitor and no
\* exact match in the own repository has the action "compete", and the
\* action is "variant" only when no conflict comes from TerminalSkills.
C36_TerminalSkillsConflictMeansCompete ==
    (impl = "master" /\ pc \in {"gap", "collect"} /\ skill_file = NoDoc)
        => LET conflicts == check(tool, Stored)
           IN  /\ (FromTerminalSkills(conflicts) # {} /\ OwnExact(conflicts) = {})
                      => dedup_action = "compete"
               /\ dedup_action = "variant" => FromTerminalSkills(conflicts) = {}

\* how many times a topic stands in the buckets
Times(q, t) == Cardinality({k \in 1..Len(q) : q[k] = t})
Placed(t) ==
    Times(results.pass, t) + Times(results.skip, t)
        + Times(results.fail, t) + Times(results.error, t)

\* C37: the batch runner starts one child run per listed topic, in the order
\* of the list and whatever the earlier ones did; every topic it has gone
\* through stands in exactly one of the buckets pass, skip, fail and error,
\* and in pass only if its run ended with the verdict PASS.
C37_BatchBucketsFollowTheVerdict ==
    pc \in {"batch", "done"}
        => /\ position = Len(launched)
           /\ \A k \in 1..position :
                 /\ launched[k].tool = tools[k]
                 /\ Placed(tools[k]) = 1
                 /\ Times(results.pass, tools[k]) > 0
                       => launched[k].final_status = "PASS"
           /\ pc = "done" => position = Len(tools)

\* the statuses a finished stage can have
FinishedStatuses == {"PASS", "PARTIAL", "FAIL", "SKIP"}

\* C38: every stage entry of a report the master pipeline has written under
\* test_reports/ has one of the statuses PASS, PARTIAL, FAIL and SKIP; no
\* stage of a written report, AUTO_FIX included, is still PENDING.
C38_PersistedStagesAreFinished ==
    impl = "master"
        => \A r \in 1..Len(reports) :
              \A k \in 1..Len(reports[r].stages) :
                 reports[r].stages[k].status \in FinishedStatuses

====
